---- MODULE Spec2Model ----
(***************************************************************************)
(* Vaccine distribution as an integer program: the model-building code of  *)
(* advanced/distribution.py and simplified/distribution.py, the pipelines  *)
(* of the two run_model.py files, and the solver as an opaque search over  *)
(* the assignments the built constraints accept.                           *)
(*                                                                         *)
(* A Python str is a sequence of one-character strings, so that + is \o    *)
(* and the substring test `r in tr` can be computed.  A Python dict is a   *)
(* sequence of entries [k |-> key, v |-> value] in insertion order.        *)
(* A travel time (a float quotient in the code) is an exact fraction       *)
(* <<numerator, denominator>>.                                             *)
(***************************************************************************)
EXTENDS Integers, Sequences, FiniteSets, TLC

VARIABLES
    program,                          \* "advanced" or "simplified": which run_model.py runs
    pc,                               \* position of main()
    model_objects,                    \* the input document (model.json / the json files)
    point_edge_lookup,                \* prepare_data's index dicts
    truck_route_combinations,
    vaccine_point_combinations,
    route_vaccine_point_combinations,
    vaccine_point_routes,
    truck_route_times,
    vaccine_point_quantities,         \* values of the flow variables (advanced)
    vaccine_quantities,               \* values of the per-route variables (simplified)
    truck_routes,                     \* values of the truck variables
    objective,                        \* the objective sense set on the model
    solution,                         \* what solve_problem returned: None or a record
    reported, printed, saved          \* what main() has output

vars == <<program, pc, model_objects, point_edge_lookup, truck_route_combinations,
          vaccine_point_combinations, route_vaccine_point_combinations,
          vaccine_point_routes, truck_route_times, vaccine_point_quantities,
          vaccine_quantities, truck_routes, objective, solution,
          reported, printed, saved>>

\* Python's None (a record, so that it compares with the records it stands in for)
None == [none |-> TRUE]

(***************************************************************************)
(* Bounds of the solver's search: the code declares the variables with     *)
(* lower bound 0 and no upper bound.                                       *)
(***************************************************************************)
MaxQty == 2

MaxTrucks == 2

ScenarioMaxQty == 101

ScenarioMaxTrucks == 3

\* The travel time of a truck type that cannot move (10e100 in the code): any
\* number larger than every lifetime of the inputs plays its part.
Unreachable == 1000000

(***************************************************************************)
(* Python str and dict                                                     *)
(***************************************************************************)
\* a + b on str
StrCat(a, b) == a \o b

\* a in b on str: a is a contiguous part of b
StrIn(a, b) ==
    \E i \in 0..(Len(b) - Len(a)) : SubSeq(b, i + 1, i + Len(a)) = a

\* the keys of a dict, in order
DictKeys(d) == [i \in DOMAIN d |-> d[i].k]

KeySet(d) == {d[i].k : i \in DOMAIN d}

HasKey(d, key) == \E i \in DOMAIN d : d[i].k = key

\* d[key]
DictGet(d, key) == d[CHOOSE i \in DOMAIN d : d[i].k = key].v

\* d[key] = value: a key already present keeps its place and takes the new value
DictPut(d, key, value) ==
    IF HasKey(d, key)
    THEN [i \in DOMAIN d |-> IF d[i].k = key THEN [k |-> key, v |-> value] ELSE d[i]]
    ELSE Append(d, [k |-> key, v |-> value])

\* {k: v for ...}: the items are written in the order the comprehension yields them
RECURSIVE DictFromItems(_, _)
DictFromItems(items, d) ==
    IF items = <<>> THEN d
    ELSE DictFromItems(Tail(items), DictPut(d, Head(items).k, Head(items).v))

\* all_points.update(other)
RECURSIVE DictUpdate(_, _)
DictUpdate(d, other) == DictFromItems(other, d)

\* model.sum / sum over a list of numbers
RECURSIVE SumSeq(_)
SumSeq(s) == IF s = <<>> THEN 0 ELSE Head(s) + SumSeq(Tail(s))

(***************************************************************************)
(* Exact fractions for travel times                                        *)
(***************************************************************************)
RatZero == <<0, 1>>

RatAdd(a, b) == <<a[1] * b[2] + b[1] * a[2], a[2] * b[2]>>

RatLe(a, b) == a[1] * b[2] <= b[1] * a[2]

RatMax(a, b) == IF RatLe(a, b) THEN b ELSE a

RatOfInt(n) == <<n, 1>>

RECURSIVE RatSum(_)
RatSum(s) == IF s = <<>> THEN RatZero ELSE RatAdd(Head(s), RatSum(Tail(s)))

\* model.max over a list of terms (0 for no term)
RECURSIVE RatMaxOf(_)
RatMaxOf(s) ==
    IF s = <<>> THEN RatZero
    ELSE IF Len(s) = 1 THEN Head(s)
    ELSE RatMax(Head(s), RatMaxOf(Tail(s)))

\* Helper function of both distribution.py files
route_time_for_truck(route, truck) ==
    IF truck.avgSpeed = 0 THEN <<Unreachable, 1>>
    ELSE <<route.distance, truck.avgSpeed>>

(***************************************************************************)
(* prepare_data, "Data and sets": the index dicts.  mo is the input        *)
(* document: dicts airports, vaccinationPoints, warehouses, routes, trucks *)
(* and vaccines, each a sequence of entries in the order of the JSON file. *)
(***************************************************************************)
\* advanced: all_points = airports, then warehouses, then vaccination points
AllPoints(mo) ==
    DictUpdate(DictUpdate(DictUpdate(<<>>, mo.airports), mo.warehouses),
               mo.vaccinationPoints)

\* simplified: the warehouses are commented out
AllPointsSimplified(mo) ==
    DictUpdate(DictUpdate(<<>>, mo.airports), mo.vaccinationPoints)

RoutesEndingAt(routes, pname) ==
    SelectSeq(DictKeys(routes), LAMBDA rname : DictGet(routes, rname).end = pname)

RoutesStartingAt(routes, pname) ==
    SelectSeq(DictKeys(routes), LAMBDA rname : DictGet(routes, rname).start = pname)

PointEdgeLookup(all_points, routes) ==
    [i \in DOMAIN all_points |->
        [k |-> all_points[i].k,
         v |-> [in  |-> RoutesEndingAt(routes, all_points[i].k),
                out |-> RoutesStartingAt(routes, all_points[i].k)]]]

\* {r + t: {...} for t in truck_types for r in routes}
TruckRouteCombinations(mo) ==
    LET nR == Len(mo.routes)
        items == [i \in 1..(Len(mo.trucks) * nR) |->
                    LET t == mo.trucks[((i - 1) \div nR) + 1].k
                        r == mo.routes[((i - 1) % nR) + 1].k
                    IN  [k |-> StrCat(r, t), v |-> [route |-> r, truck |-> t]]]
    IN  DictFromItems(items, <<>>)

\* {v + p + a: {...} for v in vaccine_types for p in vaccination_points for a in airports}
VaccinePointCombinations(mo) ==
    LET nA == Len(mo.airports)
        nP == Len(mo.vaccinationPoints)
        items == [i \in 1..(Len(mo.vaccines) * nP * nA) |->
                    LET v == mo.vaccines[((i - 1) \div (nP * nA)) + 1].k
                        p == mo.vaccinationPoints[(((i - 1) \div nA) % nP) + 1].k
                        a == mo.airports[((i - 1) % nA) + 1].k
                    IN  [k |-> StrCat(StrCat(v, p), a),
                         v |-> [vaccine |-> v, point |-> p, airport |-> a]]]
    IN  DictFromItems(items, <<>>)

\* {r + v + p + a: {...} for v in vaccine_types for p in vaccination_points
\*                       for a in airports for r in routes}
RouteVaccinePointCombinations(mo) ==
    LET nR == Len(mo.routes)
        nA == Len(mo.airports)
        nP == Len(mo.vaccinationPoints)
        items == [i \in 1..(Len(mo.vaccines) * nP * nA * nR) |->
                    LET v == mo.vaccines[((i - 1) \div (nP * nA * nR)) + 1].k
                        p == mo.vaccinationPoints[(((i - 1) \div (nA * nR)) % nP) + 1].k
                        a == mo.airports[(((i - 1) \div nR) % nA) + 1].k
                        r == mo.routes[((i - 1) % nR) + 1].k
                    IN  [k |-> StrCat(StrCat(StrCat(r, v), p), a),
                         v |-> [route |-> r, vaccine |-> v, point |-> p, airport |-> a]]]
    IN  DictFromItems(items, <<>>)

\* the routes listed for one commodity: one per entry of
\* route_vaccine_point_combinations with the commodity's vaccine, point and airport
RoutesOfCommodity(rvpc, vpa) ==
    LET hits == SelectSeq(rvpc, LAMBDA e : /\ e.v.airport = vpa.airport
                                           /\ e.v.point = vpa.point
                                           /\ e.v.vaccine = vpa.vaccine)
    IN  [i \in DOMAIN hits |-> hits[i].v.route]

VaccinePointRoutes(vpc, rvpc) ==
    [i \in DOMAIN vpc |-> [k |-> vpc[i].k, v |-> RoutesOfCommodity(rvpc, vpc[i].v)]]

\* {r + t: route_time_for_truck(route, truck) for t, truck in ... for r, route in ...}
TruckRouteTimes(mo) ==
    LET nR == Len(mo.routes)
        items == [i \in 1..(Len(mo.trucks) * nR) |->
                    LET t == mo.trucks[((i - 1) \div nR) + 1]
                        r == mo.routes[((i - 1) % nR) + 1]
                    IN  [k |-> StrCat(r.k, t.k), v |-> route_time_for_truck(r.v, t.v)]]
    IN  DictFromItems(items, <<>>)

(***************************************************************************)
(* prepare_data, "Decision variables" and "Expressions".  An assignment    *)
(* gives every declared variable a value: vpq for the flow variables, tr   *)
(* for the truck variables, each a function on the keys of its dict.       *)
(***************************************************************************)
\* model.integer_var_dict(keys): one variable per key of the dict, lower bound 0
IntegerVarDict(d, ub) == [KeySet(d) -> 0..ub]

\* advanced vaccine_quantities[r]: total number of vaccines on a route
VaccineQuantitiesOn(r, vpq) ==
    SumSeq([i \in DOMAIN route_vaccine_point_combinations |->
              IF route_vaccine_point_combinations[i].v.route = r
              THEN vpq[route_vaccine_point_combinations[i].k] ELSE 0])

\* the rent alone, without the km usage
trucks_rent_cost_rent_only(tr) ==
    SumSeq([i \in DOMAIN truck_route_combinations |->
              tr[truck_route_combinations[i].k]
              * DictGet(model_objects.trucks, truck_route_combinations[i].v.truck).rentCost])

\* trucks_rent_cost: rent + km usage
trucks_rent_cost(tr) ==
    SumSeq([i \in DOMAIN truck_route_combinations |->
              LET e == truck_route_combinations[i]
                  amount == tr[e.k]
              IN  amount * DictGet(model_objects.trucks, e.v.truck).rentCost
                  + amount * DictGet(model_objects.routes, e.v.route).distance
                           * DictGet(model_objects.trucks, e.v.truck).kmCost])

\* model.min(amount, 1) * time
ClampTimes(amount, time) == IF amount < 1 THEN <<amount * time[1], time[2]>> ELSE time

\* the inner model.max(...) of vaccine_travel_times for one route of the list
SlowestTruckTimeOn(r, tr) ==
    LET mine == SelectSeq(truck_route_combinations, LAMBDA e : e.v.route = r)
    IN  RatMaxOf([i \in DOMAIN mine |->
                    ClampTimes(tr[mine[i].k], DictGet(truck_route_times, mine[i].k))])

\* vaccine_travel_times[vpaname]
vaccine_travel_times(vpaname, tr) ==
    LET vparoutes == DictGet(vaccine_point_routes, vpaname)
    IN  RatSum([i \in DOMAIN vparoutes |-> SlowestTruckTimeOn(vparoutes[i], tr)])

(***************************************************************************)
(* prepare_data, "Constraints" (advanced).  Each is the conjunction of the *)
(* constraints one loop of the code adds.                                  *)
(***************************************************************************)
InList(x, list) == \E i \in DOMAIN list : list[i] = x

\* the sum of the flow variables whose dict entry satisfies Keep
SumFlowsWhere(vpq, Keep(_)) ==
    SumSeq([i \in DOMAIN route_vaccine_point_combinations |->
              IF Keep(route_vaccine_point_combinations[i].v)
              THEN vpq[route_vaccine_point_combinations[i].k] ELSE 0])

\* Vaccine travel time is lower or equal to its travel lifetime
ct_vaccine_travel_time(tr) ==
    \A i \in DOMAIN vaccine_point_combinations :
        RatLe(vaccine_travel_times(vaccine_point_combinations[i].k, tr),
              RatOfInt(DictGet(model_objects.vaccines,
                               vaccine_point_combinations[i].v.vaccine).lifetime))

\* Routes from airports can have at most the delivery amount of the airport
ct_airport_max(vpq) ==
    \A i \in DOMAIN model_objects.airports :
        LET pname == model_objects.airports[i].k
            out == DictGet(point_edge_lookup, pname).out
        IN  SumFlowsWhere(vpq, LAMBDA rvpa : rvpa.airport = pname /\ InList(rvpa.route, out))
            <= model_objects.airports[i].v.deliveryAmount

\* the demand constraint with the comparison of the airport constraint above it
ct_point_demand_at_most(vpq) ==
    \A i \in DOMAIN model_objects.vaccinationPoints :
        LET pname == model_objects.vaccinationPoints[i].k
            inn == DictGet(point_edge_lookup, pname).in
            vpc == vaccine_point_combinations
        IN  SumSeq([j \in DOMAIN inn |->
                      SumSeq([n \in DOMAIN vpc |->
                                IF vpc[n].v.point = pname
                                THEN vpq[StrCat(inn[j], vpc[n].k)] ELSE 0])])
            <= model_objects.vaccinationPoints[i].v.demand

\* Sum of routes to the vaccination points must have at least the demand of the point
ct_point_demand(vpq) ==
    \A i \in DOMAIN model_objects.vaccinationPoints :
        LET pname == model_objects.vaccinationPoints[i].k
            inn == DictGet(point_edge_lookup, pname).in
            vpc == vaccine_point_combinations
        IN  SumSeq([j \in DOMAIN inn |->
                      SumSeq([n \in DOMAIN vpc |->
                                IF vpc[n].v.point = pname
                                THEN vpq[StrCat(inn[j], vpc[n].k)] ELSE 0])])
            >= model_objects.vaccinationPoints[i].v.demand

\* conservation of the total over all commodities, not of each commodity
ct_warehouse_conservation_in_total(vpq) ==
    \A i \in DOMAIN model_objects.warehouses :
        LET warehouse_routes == DictGet(point_edge_lookup, model_objects.warehouses[i].k)
            vpc == vaccine_point_combinations
        IN  SumSeq([n \in DOMAIN vpc |->
                      SumSeq([j \in DOMAIN warehouse_routes.in |->
                                vpq[StrCat(warehouse_routes.in[j], vpc[n].k)]])])
            = SumSeq([n \in DOMAIN vpc |->
                        SumSeq([j \in DOMAIN warehouse_routes.out |->
                                  vpq[StrCat(warehouse_routes.out[j], vpc[n].k)]])])

\* For warehouse points, incoming vaccines should be equal to outgoing
ct_warehouse_conservation(vpq) ==
    \A i \in DOMAIN model_objects.warehouses :
        LET warehouse_routes == DictGet(point_edge_lookup, model_objects.warehouses[i].k)
        IN  \A n \in DOMAIN vaccine_point_combinations :
                LET vpaname == vaccine_point_combinations[n].k
                IN  SumSeq([j \in DOMAIN warehouse_routes.in |->
                              vpq[StrCat(warehouse_routes.in[j], vpaname)]])
                    = SumSeq([j \in DOMAIN warehouse_routes.out |->
                                vpq[StrCat(warehouse_routes.out[j], vpaname)]])

\* the left-hand side of ct_truck_capacity_at_least for route r
TruckCapacityOn(r, tr) ==
    SumSeq([i \in DOMAIN truck_route_combinations |->
              IF truck_route_combinations[i].v.route = r
              THEN tr[truck_route_combinations[i].k]
                   * DictGet(model_objects.trucks,
                             truck_route_combinations[i].v.truck).maxCapacity
              ELSE 0])

\* Sum of truck capacity must be at least the amount of vaccines on its route
ct_truck_capacity_at_least(vpq, tr) ==
    \A i \in DOMAIN model_objects.routes :
        TruckCapacityOn(model_objects.routes[i].k, tr)
        >= VaccineQuantitiesOn(model_objects.routes[i].k, vpq)

\* Amount of point destined routes from airports have to be equal
ct_vaccine_source_types_equal(vpq) ==
    \A i \in DOMAIN model_objects.airports :
        LET aname == model_objects.airports[i].k
            points == model_objects.vaccinationPoints
        IN  SumFlowsWhere(vpq, LAMBDA rvpa :
                /\ InList(rvpa.route, DictGet(point_edge_lookup, aname).out)
                /\ rvpa.airport = aname)
            = SumSeq([j \in DOMAIN points |->
                        SumFlowsWhere(vpq, LAMBDA rvpa :
                            /\ InList(rvpa.route, DictGet(point_edge_lookup, points[j].k).in)
                            /\ rvpa.airport = aname)])

\* Amount of airport sourced routes to points have to be equal
ct_vaccine_dest_types_equal(vpq) ==
    \A i \in DOMAIN model_objects.vaccinationPoints :
        LET vname == model_objects.vaccinationPoints[i].k
            airports == model_objects.airports
        IN  SumFlowsWhere(vpq, LAMBDA rvpa :
                /\ InList(rvpa.route, DictGet(point_edge_lookup, vname).in)
                /\ rvpa.point = vname)
            = SumSeq([j \in DOMAIN airports |->
                        SumFlowsWhere(vpq, LAMBDA rvpa :
                            /\ InList(rvpa.route, DictGet(point_edge_lookup, airports[j].k).out)
                            /\ rvpa.point = vname)])

\* the constraints on the flow variables alone
FlowConstraints(vpq) ==
    /\ ct_airport_max(vpq)
    /\ ct_point_demand(vpq)
    /\ ct_warehouse_conservation(vpq)
    /\ ct_vaccine_source_types_equal(vpq)
    /\ ct_vaccine_dest_types_equal(vpq)

\* every constraint prepare_data adds to the model
Constraints(vpq, tr) ==
    /\ ct_vaccine_travel_time(tr)
    /\ FlowConstraints(vpq)
    /\ ct_truck_capacity_at_least(vpq, tr)

(***************************************************************************)
(* prepare_data of simplified/distribution.py: one flow variable per route *)
(* (vq), the truck variables as above.                                     *)
(***************************************************************************)
ct_airport_max_simplified(vq) ==
    \A i \in DOMAIN model_objects.airports :
        LET out == DictGet(point_edge_lookup, model_objects.airports[i].k).out
        IN  SumSeq([j \in DOMAIN out |-> vq[out[j]]])
            <= model_objects.airports[i].v.deliveryAmount

ct_point_demand_simplified(vq) ==
    \A i \in DOMAIN model_objects.vaccinationPoints :
        LET inn == DictGet(point_edge_lookup, model_objects.vaccinationPoints[i].k).in
        IN  SumSeq([j \in DOMAIN inn |-> vq[inn[j]]])
            >= model_objects.vaccinationPoints[i].v.demand

\* the left-hand side of the simplified ct_truck_capacity_at_least for route r:
\* the truck variables are picked by `if r in tr`
TruckCapacityOnSimplified(r, tr) ==
    SumSeq([i \in DOMAIN truck_route_combinations |->
              IF StrIn(r, truck_route_combinations[i].k)
              THEN tr[truck_route_combinations[i].k]
                   * DictGet(model_objects.trucks,
                             truck_route_combinations[i].v.truck).maxCapacity
              ELSE 0])

ct_truck_capacity_at_least_simplified(vq, tr) ==
    \A i \in DOMAIN model_objects.routes :
        TruckCapacityOnSimplified(model_objects.routes[i].k, tr)
        >= vq[model_objects.routes[i].k]

\* truck_routes[trname] * route_time <= truck_routes[trname] * lifetime
ct_vaccine_lifetime(tr) ==
    \A i \in DOMAIN truck_route_combinations :
        \A n \in DOMAIN model_objects.vaccines :
            LET e == truck_route_combinations[i]
                time == route_time_for_truck(DictGet(model_objects.routes, e.v.route),
                                             DictGet(model_objects.trucks, e.v.truck))
            IN  RatLe(<<tr[e.k] * time[1], time[2]>>,
                      RatOfInt(tr[e.k] * model_objects.vaccines[n].v.lifetime))

ConstraintsSimplified(vq, tr) ==
    /\ ct_airport_max_simplified(vq)
    /\ ct_point_demand_simplified(vq)
    /\ ct_truck_capacity_at_least_simplified(vq, tr)
    /\ ct_vaccine_lifetime(tr)

(***************************************************************************)
(* Input documents.  Identifiers are arbitrary JSON object keys; the sets  *)
(* below hold keys that concatenate to distinct strings (R, S, T, V) and   *)
(* keys that do not ("R"+"1T" = "R1"+"T", "R"+"1V" = "R1"+"V"), and route  *)
(* keys of which one is a part of the other ("R1", "R10").                 *)
(***************************************************************************)
Entry(key, value) == [k |-> key, v |-> value]

Route(s, e, d) == [start |-> s, end |-> e, distance |-> d]

Truck(rent, km, cap, speed) ==
    [rentCost |-> rent, kmCost |-> km, maxCapacity |-> cap, avgSpeed |-> speed]

Document(airports, points, warehouses, routes, trucks, vaccines) ==
    [airports |-> airports, vaccinationPoints |-> points, warehouses |-> warehouses,
     routes |-> routes, trucks |-> trucks, vaccines |-> vaccines]

Demands == {0, 1}

DeliveryAmounts == {0, 1}

Distances == {0, 1}

Speeds == {0, 2}

Lifetimes == {0, 1}

SecondRouteKeys == {<<"S">>, <<"R", "1">>}

Extras == {"none", "vaccine", "truck"}

Topologies == {"direct", "parallel", "warehouse", "isolated"}

\* the routes of a topology: the first route is R, the second r2
RoutesOf(topo, r2, d) ==
    CASE topo = "direct"    -> << Entry(<<"R">>, Route(<<"A">>, <<"P">>, d)) >>
      [] topo = "parallel"  -> << Entry(<<"R">>, Route(<<"A">>, <<"P">>, d)),
                                  Entry(r2, Route(<<"A">>, <<"P">>, 1)) >>
      [] topo = "warehouse" -> << Entry(<<"R">>, Route(<<"A">>, <<"W">>, d)),
                                  Entry(r2, Route(<<"W">>, <<"P">>, 1)) >>
      [] topo = "isolated"  -> << Entry(<<"R">>, Route(<<"A">>, <<"W">>, d)) >>

WarehousesOf(topo) ==
    IF topo \in {"warehouse", "isolated"} THEN << Entry(<<"W">>, <<>>) >>
    ELSE <<>>

TrucksOf(extra, speed) ==
    << Entry(<<"T">>, Truck(1, 1, 1, speed)) >>
    \o (IF extra = "truck" THEN << Entry(<<"1", "T">>, Truck(2, 0, 2, 1)) >> ELSE <<>>)

VaccinesOf(extra, lifetime) ==
    << Entry(<<"V">>, [lifetime |-> lifetime]) >>
    \o (IF extra = "vaccine" THEN << Entry(<<"1", "V">>, [lifetime |-> 1]) >> ELSE <<>>)

DocumentOf(topo, r2, extra, demand, delivery, d, speed, lifetime) ==
    Document(<< Entry(<<"A">>, [deliveryAmount |-> delivery]) >>,
             << Entry(<<"P">>, [demand |-> demand]) >>,
             WarehousesOf(topo),
             RoutesOf(topo, r2, d),
             TrucksOf(extra, speed),
             VaccinesOf(extra, lifetime))

\* one-route networks with every choice of types; two-route networks with two
\* vaccine types or two truck types
Shapes ==
    ({"direct", "isolated"} \X {<<"S">>} \X Extras)
    \cup ({"parallel", "warehouse"} \X SecondRouteKeys \X {"vaccine", "truck"})

Documents ==
    { DocumentOf(sh[1], sh[2], sh[3], demand, delivery, d, speed, lifetime) :
        sh \in Shapes, demand \in Demands, delivery \in DeliveryAmounts,
        d \in Distances, speed \in Speeds, lifetime \in Lifetimes }

\* the simplified program reads no warehouses
SimplifiedSecondRouteKeys == {<<"S">>, <<"R", "1", "0">>}

SimplifiedRoutesOf(topo, r2, d) ==
    CASE topo = "direct"    -> << Entry(<<"R", "1">>, Route(<<"A">>, <<"U">>, d)) >>
      [] topo = "parallel"  -> << Entry(<<"R", "1">>, Route(<<"A">>, <<"U">>, d)),
                                  Entry(r2, Route(<<"A">>, <<"U">>, 1)) >>
      [] topo = "isolated"  -> << Entry(<<"R", "1">>, Route(<<"A">>, <<"W">>, d)) >>

SimplifiedDocuments ==
    { Document(<< Entry(<<"A">>, [deliveryAmount |-> delivery]) >>,
               << Entry(<<"U">>, [demand |-> demand]) >>,
               <<>>,
               SimplifiedRoutesOf(topo, r2, d),
               << Entry(<<"T", "1">>, Truck(1, 1, 1, speed)) >>,
               << Entry(<<"V">>, [lifetime |-> lifetime]) >>) :
        topo \in {"direct", "parallel", "isolated"}, r2 \in SimplifiedSecondRouteKeys,
        demand \in Demands, delivery \in DeliveryAmounts, d \in Distances,
        speed \in Speeds, lifetime \in Lifetimes }

\* the trivial two-node network
ScenarioDocument ==
    Document(<< Entry(<<"A">>, [deliveryAmount |-> 100]) >>,
             << Entry(<<"P">>, [demand |-> 50]) >>,
             <<>>,
             << Entry(<<"A", "P">>, Route(<<"A">>, <<"P">>, 10)) >>,
             << Entry(<<"T">>, Truck(5, 1, 50, 5)) >>,
             << Entry(<<"V">>, [lifetime |-> 100]) >>)

(***************************************************************************)
(* main() of the two run_model.py files                                    *)
(***************************************************************************)
NoValues == <<>>

InitWith(prog, docs) ==
    /\ program = prog
    /\ model_objects \in docs
    /\ pc = "prepare_data"
    /\ point_edge_lookup = <<>>
    /\ truck_route_combinations = <<>>
    /\ vaccine_point_combinations = <<>>
    /\ route_vaccine_point_combinations = <<>>
    /\ vaccine_point_routes = <<>>
    /\ truck_route_times = <<>>
    /\ vaccine_point_quantities = NoValues
    /\ vaccine_quantities = NoValues
    /\ truck_routes = NoValues
    /\ objective = None
    /\ solution = None
    /\ reported = FALSE
    /\ printed = <<>>
    /\ saved = None

indexVars == <<point_edge_lookup, truck_route_combinations, vaccine_point_combinations,
               route_vaccine_point_combinations, vaccine_point_routes, truck_route_times>>

valueVars == <<vaccine_point_quantities, vaccine_quantities, truck_routes>>

outputVars == <<reported, printed, saved>>

\* advanced prepare_data: the index dicts (the constraints are the operators above)
PrepareData ==
    /\ program = "advanced"
    /\ pc = "prepare_data"
    /\ point_edge_lookup' = PointEdgeLookup(AllPoints(model_objects), model_objects.routes)
    /\ truck_route_combinations' = TruckRouteCombinations(model_objects)
    /\ vaccine_point_combinations' = VaccinePointCombinations(model_objects)
    /\ route_vaccine_point_combinations' = RouteVaccinePointCombinations(model_objects)
    /\ vaccine_point_routes' =
           VaccinePointRoutes(VaccinePointCombinations(model_objects),
                              RouteVaccinePointCombinations(model_objects))
    /\ truck_route_times' = TruckRouteTimes(model_objects)
    /\ pc' = "set_objective"
    /\ UNCHANGED <<program, model_objects, valueVars, objective, solution, outputVars>>

\* simplified prepare_data
PrepareDataSimplified ==
    /\ program = "simplified"
    /\ pc = "prepare_data"
    /\ point_edge_lookup' =
           PointEdgeLookup(AllPointsSimplified(model_objects), model_objects.routes)
    /\ truck_route_combinations' = TruckRouteCombinations(model_objects)
    /\ pc' = "set_objective"
    /\ UNCHANGED <<program, model_objects, vaccine_point_combinations,
                   route_vaccine_point_combinations, vaccine_point_routes,
                   truck_route_times, valueVars, objective, solution, outputVars>>

SetObjective ==
    /\ pc = "set_objective"
    /\ objective' = [sense |-> "min", expression |-> "trucks_rent_cost"]
    /\ pc' = "solve_problem"
    /\ UNCHANGED <<program, model_objects, indexVars, valueVars, solution, outputVars>>

(***************************************************************************)
(* solve_problem: model.solve() of the external solver.  The solver is     *)
(* opaque: while it runs it may hold any assignment the constraints accept *)
(* (pc = "incumbent"); it returns one of least objective, or None when the *)
(* constraints accept no assignment.  maxQty and maxTrucks bound the       *)
(* values it tries.                                                        *)
(***************************************************************************)
\* the assignments within the bounds that satisfy Constraints: the constraints on
\* the flows alone and on the trucks alone are applied before those on both
Accepted(maxQty, maxTrucks) ==
    LET flows  == { vpq \in IntegerVarDict(route_vaccine_point_combinations, maxQty) :
                      FlowConstraints(vpq) }
        trucks == { tr \in IntegerVarDict(truck_route_combinations, maxTrucks) :
                      ct_vaccine_travel_time(tr) }
    IN  { c \in flows \X trucks : ct_truck_capacity_at_least(c[1], c[2]) }

AcceptedSimplified(maxQty, maxTrucks) ==
    LET flows  == { vq \in [KeySet(model_objects.routes) -> 0..maxQty] :
                      ct_airport_max_simplified(vq) /\ ct_point_demand_simplified(vq) }
        trucks == { tr \in IntegerVarDict(truck_route_combinations, maxTrucks) :
                      ct_vaccine_lifetime(tr) }
    IN  { c \in flows \X trucks : ct_truck_capacity_at_least_simplified(c[1], c[2]) }

\* the least value of the objective over a non-empty set of assignments
LeastCost(assignments) ==
    LET costs == {trucks_rent_cost(c[2]) : c \in assignments}
    IN  CHOOSE m \in costs : \A n \in costs : m <= n

\* one step of model.solve(): the solver holds an accepted assignment, and either
\* returns it (only if none costs less) or keeps searching; with nothing accepted
\* it returns None
SolveProblem(maxQty, maxTrucks) ==
    /\ program = "advanced"
    /\ pc = "solve_problem"
    /\ objective # None
    /\ LET accepted == Accepted(maxQty, maxTrucks)
           least == LeastCost(accepted)
       IN  IF accepted = {}
           THEN /\ solution' = None
                /\ pc' = "report"
                /\ UNCHANGED <<vaccine_point_quantities, truck_routes>>
           ELSE \E c \in accepted, returns \in BOOLEAN :
                   /\ returns => trucks_rent_cost(c[2]) = least
                   /\ vaccine_point_quantities' = c[1]
                   /\ truck_routes' = c[2]
                   /\ solution' = IF returns
                                  THEN [objective_value |-> trucks_rent_cost(c[2])]
                                  ELSE None
                   /\ pc' = IF returns THEN "report" ELSE "incumbent"
    /\ UNCHANGED <<program, model_objects, indexVars, vaccine_quantities,
                   objective, outputVars>>

SolveProblemSimplified(maxQty, maxTrucks) ==
    /\ program = "simplified"
    /\ pc = "solve_problem"
    /\ objective # None
    /\ LET accepted == AcceptedSimplified(maxQty, maxTrucks)
           least == LeastCost(accepted)
       IN  IF accepted = {}
           THEN /\ solution' = None
                /\ pc' = "if_solution"
                /\ UNCHANGED <<vaccine_quantities, truck_routes>>
           ELSE \E c \in accepted, returns \in BOOLEAN :
                   /\ returns => trucks_rent_cost(c[2]) = least
                   /\ vaccine_quantities' = c[1]
                   /\ truck_routes' = c[2]
                   /\ solution' = IF returns
                                  THEN [objective_value |-> trucks_rent_cost(c[2])]
                                  ELSE None
                   /\ pc' = IF returns THEN "if_solution" ELSE "incumbent"
    /\ UNCHANGED <<program, model_objects, indexVars, vaccine_point_quantities,
                   objective, outputVars>>

\* the solver drops the assignment it holds and searches on
Backtrack ==
    /\ pc = "incumbent"
    /\ vaccine_point_quantities' = NoValues
    /\ vaccine_quantities' = NoValues
    /\ truck_routes' = NoValues
    /\ pc' = "solve_problem"
    /\ UNCHANGED <<program, model_objects, indexVars, objective, solution, outputVars>>

\* advanced main: model.report()
Report ==
    /\ pc = "report"
    /\ reported' = TRUE
    /\ pc' = "if_solution"
    /\ UNCHANGED <<program, model_objects, indexVars, valueVars, objective, solution,
                   printed, saved>>

\* a main() that goes on to print whatever solve_problem returned
HasSolution_unchecked(sol) == TRUE

\* if solution:
HasSolution(sol) == sol # None

IfSolution ==
    /\ pc = "if_solution"
    /\ pc' = IF HasSolution(solution)
             THEN (IF program = "advanced" THEN "print_args" ELSE "print_solution")
             ELSE "done"
    /\ UNCHANGED <<program, model_objects, indexVars, valueVars, objective, solution,
                   outputVars>>

\* [a() for a in args]: prints the travel time of every commodity
PrintArgs ==
    /\ pc = "print_args"
    /\ printed' = Append(printed,
                         [i \in DOMAIN vaccine_point_combinations |->
                            << vaccine_point_combinations[i].k,
                               vaccine_travel_times(vaccine_point_combinations[i].k,
                                                    truck_routes) >>])
    /\ pc' = "print_solution"
    /\ UNCHANGED <<program, model_objects, indexVars, valueVars, objective, solution,
                   reported, saved>>

PrintSolution ==
    /\ pc = "print_solution"
    /\ printed' = Append(printed, solution)
    /\ pc' = IF program = "advanced" THEN "save_solution" ELSE "done"
    /\ UNCHANGED <<program, model_objects, indexVars, valueVars, objective, solution,
                   reported, saved>>

SaveSolution ==
    /\ pc = "save_solution"
    /\ saved' = solution
    /\ pc' = "done"
    /\ UNCHANGED <<program, model_objects, indexVars, valueVars, objective, solution,
                   reported, printed>>

(***************************************************************************)
(* Specifications                                                          *)
(***************************************************************************)
Init == InitWith("advanced", Documents)

Next ==
    \/ PrepareData
    \/ SetObjective
    \/ Backtrack
    \/ SolveProblem(MaxQty, MaxTrucks)
    \/ Report
    \/ IfSolution
    \/ PrintArgs
    \/ PrintSolution
    \/ SaveSolution

Spec == Init /\ [][Next]_vars

InitSimplified == InitWith("simplified", SimplifiedDocuments)

NextSimplified ==
    \/ PrepareDataSimplified
    \/ SetObjective
    \/ Backtrack
    \/ SolveProblemSimplified(MaxQty, MaxTrucks)
    \/ IfSolution
    \/ PrintSolution

SpecSimplified == InitSimplified /\ [][NextSimplified]_vars

InitScenario == InitWith("advanced", {ScenarioDocument})

NextScenario ==
    \/ PrepareData
    \/ SetObjective
    \/ Backtrack
    \/ SolveProblem(ScenarioMaxQty, ScenarioMaxTrucks)
    \/ Report
    \/ IfSolution
    \/ PrintArgs
    \/ PrintSolution
    \/ SaveSolution

SpecScenario == InitScenario /\ [][NextScenario]_vars

\* documents whose composite keys are pairwise distinct
DistinctKeys(doc) ==
    /\ Len(TruckRouteCombinations(doc)) = Len(doc.routes) * Len(doc.trucks)
    /\ Len(VaccinePointCombinations(doc))
         = Len(doc.vaccines) * Len(doc.vaccinationPoints) * Len(doc.airports)
    /\ Len(RouteVaccinePointCombinations(doc))
         = Len(doc.routes) * Len(doc.vaccines) * Len(doc.vaccinationPoints)
           * Len(doc.airports)

InitDistinctKeys == InitWith("advanced", {doc \in Documents : DistinctKeys(doc)})

SpecDistinctKeys == InitDistinctKeys /\ [][Next]_vars

\* both programs, on the one-route networks
InitPipelines ==
    \/ InitWith("advanced", {doc \in Documents : Len(doc.routes) = 1})
    \/ InitWith("simplified", {doc \in SimplifiedDocuments : Len(doc.routes) = 1})

NextPipelines ==
    \/ PrepareData
    \/ PrepareDataSimplified
    \/ SetObjective
    \/ SolveProblem(MaxQty, MaxTrucks)
    \/ SolveProblemSimplified(MaxQty, MaxTrucks)
    \/ Backtrack
    \/ Report
    \/ IfSolution
    \/ PrintArgs
    \/ PrintSolution
    \/ SaveSolution

SpecPipelines == InitPipelines /\ [][NextPipelines]_vars

(***************************************************************************)
(* The vocabulary of the properties: what an assignment says about a       *)
(* route, a truck type and a commodity (vaccine, point, airport).  The     *)
(* count of trucks of type t on route r is the value of the variable the   *)
(* code declares for (r, t), truck_routes[r + t]; the flow of commodity    *)
(* (v, p, a) on route r is the value of vaccine_point_quantities[r+v+p+a]. *)
(***************************************************************************)
\* the model's variables hold an assignment the constraints accept
HoldsAssignment == pc = "incumbent" \/ solution # None

\* solve_problem has returned
Solved == pc \in {"report", "if_solution", "print_args", "print_solution",
                  "save_solution", "done"}

TruckCountOf(r, t) == truck_routes[StrCat(r, t)]

FlowOf(r, v, p, a) == vaccine_point_quantities[StrCat(StrCat(StrCat(r, v), p), a)]

Routes == model_objects.routes

TruckTypes == model_objects.trucks

Vaccines == model_objects.vaccines

Points == model_objects.vaccinationPoints

Airports == model_objects.airports

Commodities ==
    { <<Vaccines[i].k, Points[j].k, Airports[n].k>> :
        i \in DOMAIN Vaccines, j \in DOMAIN Points, n \in DOMAIN Airports }

RatEq(a, b) == a[1] * b[2] = b[1] * a[2]

\* the largest travel time among the truck types with a non-zero count on route r
SlowestAssignedTime(r) ==
    LET assigned == SelectSeq(TruckTypes, LAMBDA t : TruckCountOf(r, t.k) # 0)
    IN  RatMaxOf([i \in DOMAIN assigned |->
                    route_time_for_truck(DictGet(Routes, r), assigned[i].v)])

\* the sum of those times over the routes that carry commodity c
TravelTimeOnUsedRoutes(c) ==
    RatSum([i \in DOMAIN Routes |->
              IF FlowOf(Routes[i].k, c[1], c[2], c[3]) > 0
              THEN SlowestAssignedTime(Routes[i].k) ELSE RatZero])

\* what the solver holds satisfies every constraint of the model
AcceptedMeetsConstraints ==
    HoldsAssignment =>
        IF program = "advanced"
        THEN Constraints(vaccine_point_quantities, truck_routes)
        ELSE ConstraintsSimplified(vaccine_quantities, truck_routes)

\* the total flow on route r, over every commodity
FlowOnRoute(r) ==
    SumSeq([i \in DOMAIN Vaccines |->
        SumSeq([j \in DOMAIN Points |->
            SumSeq([n \in DOMAIN Airports |->
                FlowOf(r, Vaccines[i].k, Points[j].k, Airports[n].k)])])])

\* the total capacity of the trucks on route r
CapacityOnRoute(r) ==
    SumSeq([i \in DOMAIN TruckTypes |->
              TruckCountOf(r, TruckTypes[i].k) * TruckTypes[i].v.maxCapacity])

\* the flow of commodity c on the routes that satisfy Test
CommodityFlowWhere(c, Test(_)) ==
    SumSeq([i \in DOMAIN Routes |->
              IF Test(Routes[i].v) THEN FlowOf(Routes[i].k, c[1], c[2], c[3]) ELSE 0])

\* the flow into point p of the commodities destined to p
InboundDestinedTo(p) ==
    SumSeq([i \in DOMAIN Vaccines |->
        SumSeq([n \in DOMAIN Airports |->
            CommodityFlowWhere(<<Vaccines[i].k, p, Airports[n].k>>,
                               LAMBDA route : route.end = p)])])

\* the flow out of airport a of the commodities sourced at a
OutboundSourcedAt(a) ==
    SumSeq([i \in DOMAIN Vaccines |->
        SumSeq([j \in DOMAIN Points |->
            CommodityFlowWhere(<<Vaccines[i].k, Points[j].k, a>>,
                               LAMBDA route : route.start = a)])])

(***************************************************************************)
(* Properties                                                              *)
(***************************************************************************)
\* C1: for every commodity, the travel-time expression bounded by the lifetime
\* equals the sum, over exactly the routes carrying a positive quantity of the
\* commodity, of the largest travel time among the truck types with a non-zero
\* count on the route; a route carrying none of it contributes 0.
C1_TravelTimeCountsOnlyUsedRoutes ==
    HoldsAssignment =>
        \A c \in Commodities :
            RatEq(vaccine_travel_times(StrCat(StrCat(c[1], c[2]), c[3]), truck_routes),
                  TravelTimeOnUsedRoutes(c))

\* C2: in every accepted assignment, for every commodity with positive flow on
\* some route, the sum over the routes carrying it of the slowest assigned truck
\* type's travel time is at most the lifetime of the commodity's vaccine.
C2_ShelfLifeBound ==
    HoldsAssignment =>
        \A c \in Commodities :
            (\E i \in DOMAIN Routes : FlowOf(Routes[i].k, c[1], c[2], c[3]) > 0)
            => RatLe(TravelTimeOnUsedRoutes(c),
                     RatOfInt(DictGet(Vaccines, c[1]).lifetime))

\* C3: in every accepted assignment, for every route, the capacity of the trucks
\* on the route is at least the flow of all commodities on the route, whatever
\* the keys of the input.
C3_CapacityFeasibility ==
    HoldsAssignment =>
        \A i \in DOMAIN Routes : CapacityOnRoute(Routes[i].k) >= FlowOnRoute(Routes[i].k)

\* C4: in every accepted assignment, for every warehouse and every commodity,
\* the commodity's flow on the routes ending at the warehouse equals its flow on
\* the routes starting at the warehouse.
C4_FlowConservation ==
    HoldsAssignment =>
        \A i \in DOMAIN model_objects.warehouses : \A c \in Commodities :
            LET w == model_objects.warehouses[i].k
            IN  CommodityFlowWhere(c, LAMBDA route : route.end = w)
                = CommodityFlowWhere(c, LAMBDA route : route.start = w)

\* a warehouse that passes a positive flow on
C4_Witness ==
    /\ HoldsAssignment
    /\ \E i \in DOMAIN model_objects.warehouses : \E c \in Commodities :
          CommodityFlowWhere(c, LAMBDA route :
              route.start = model_objects.warehouses[i].k) > 0

\* a vaccination point with a positive demand and no route ending at it
Unreachable_Point ==
    \E j \in DOMAIN Points :
        /\ Points[j].v.demand > 0
        /\ \A i \in DOMAIN Routes : Routes[i].v.end # Points[j].k

\* C5: in every accepted assignment, for every vaccination point, the flow on its
\* inbound routes of the commodities destined to it is at least its demand; a
\* point with a positive demand and no inbound route makes the model infeasible.
C5_DemandSatisfaction ==
    /\ HoldsAssignment =>
          \A j \in DOMAIN Points : InboundDestinedTo(Points[j].k) >= Points[j].v.demand
    /\ Unreachable_Point => (~HoldsAssignment /\ (Solved => solution = None))

\* an accepted assignment that meets a positive demand
C5_Witness ==
    /\ HoldsAssignment
    /\ \E j \in DOMAIN Points :
          Points[j].v.demand > 0 /\ InboundDestinedTo(Points[j].k) >= Points[j].v.demand

\* the solver has returned None for a network with an unreachable point
C5_InfeasibleWitness == Unreachable_Point /\ pc = "done" /\ solution = None

\* C6: in every accepted assignment, for every airport, the flow on its outbound
\* routes of the commodities sourced at it is at most its deliveryAmount.
C6_DeliveryCap ==
    HoldsAssignment =>
        \A n \in DOMAIN Airports :
            OutboundSourcedAt(Airports[n].k) <= Airports[n].v.deliveryAmount

\* C7: the index construction yields one distinct key, hence one decision
\* variable, per (route, truck type) pair and per (route, vaccine, point, airport)
\* quadruple.
C7_OneVariablePerCombination ==
    pc # "prepare_data" =>
        /\ Cardinality(KeySet(truck_route_combinations))
             = Len(Routes) * Len(TruckTypes)
        /\ Cardinality(KeySet(route_vaccine_point_combinations))
             = Len(Routes) * Len(Vaccines) * Len(Points) * Len(Airports)

\* C8: on the two-node network the least objective over the accepted assignments
\* is 15, attained only with a flow of 50 and one truck.
C8_ScenarioOptimum ==
    LET r == <<"A", "P">>
        cost == trucks_rent_cost(truck_routes)
        expected == FlowOf(r, <<"V">>, <<"P">>, <<"A">>) = 50 /\ TruckCountOf(r, <<"T">>) = 1
    IN  /\ HoldsAssignment => (cost >= 15 /\ (cost = 15 => expected))
        /\ Solved => (solution = [objective_value |-> 15] /\ expected)

\* the solver has returned the assignment of cost 15
C8_Witness ==
    /\ pc = "done"
    /\ solution = [objective_value |-> 15]
    /\ trucks_rent_cost(truck_routes) = 15

TruckVariablesOf(r) ==
    SelectSeq(truck_route_combinations, LAMBDA e : e.v.route = r)

\* C10: in every assignment accepted by the simplified constraints, for every
\* route r, the capacity of the truck variables that belong to r is at least the
\* vaccine quantity on r; trucks of another route never count towards r.
C10_SimplifiedCapacity ==
    (program = "simplified" /\ HoldsAssignment) =>
        \A i \in DOMAIN Routes :
            LET mine == TruckVariablesOf(Routes[i].k)
            IN  SumSeq([j \in DOMAIN mine |->
                          truck_routes[mine[j].k]
                          * DictGet(TruckTypes, mine[j].v.truck).maxCapacity])
                >= vaccine_quantities[Routes[i].k]

====
